---- MODULE Spec2Model ----
(***************************************************************************)
(* A model of the guest agent's reconciliation core (runUpdate and the     *)
(* metadata long-poll handler of runAgent), of its service handlers        *)
(* (systemd and Windows) and of main's shutdown path.                      *)
(*                                                                         *)
(* The module holds four specifications over disjoint groups of variables: *)
(*   SpecUpdate   one runUpdate pass at a time, goroutine by goroutine;    *)
(*   SpecAgent    the long-poll handler under the event manager;           *)
(*   SpecService  the serviceHandler interface called by a client;         *)
(*   SpecMain     main, its shutdown goroutine and the signal goroutine.   *)
(***************************************************************************)
EXTENDS Naturals, Sequences, FiniteSets

VARIABLES
  \* ---- runUpdate (one pass) ----
  upc,          \* position of the goroutine that called runUpdate
  launched,     \* number of managers the for loop has launched a goroutine for
  wg,           \* the pass's sync.WaitGroup counter
  tpc,          \* tpc[m]: position of manager m's goroutine
  ret,          \* ret[m]: what disabled/timeout/diff returned in this pass
  setCalls,     \* setCalls[m]: number of invocations of m.set in this pass
  setErr,       \* setErr[m]: what m.set returned in this pass
  \* ---- the long-poll handler of runAgent ----
  newMetadata,  \* the package variable newMetadata
  oldMetadata,  \* the package variable oldMetadata
  oldBy,        \* number of the event whose handler last assigned oldMetadata
  subscribed,   \* the long-poll subscription is alive
  delivered,    \* number of long-poll events delivered so far
  hpc,          \* hpc[h]: position of invocation h of the callback
  hev,          \* hev[h]: the event invocation h was called with
  passWg,       \* passWg[h]: WaitGroup counter of the pass of invocation h
  dataLog,      \* numbers of the delivered events that carried a snapshot, in order
  \* ---- the service handler (package service) ----
  handler,      \* the serviceHandler of the build: "systemd" or "windows"
  managed,      \* the process was launched by the service manager
  initialized,  \* winService.initialized
  statusChannel,\* winService.statusChannel: "nil" until Execute sets it
  notes,        \* what has been sent to the service manager, in order
  lastCall,     \* the last Register or SetState call and what it returned
  ncalls,       \* Register and SetState calls made so far
  blocked,      \* a caller is blocked for ever in a send on a nil channel
  ipc,          \* position of the interrogate listener started by Execute
  tlpc,         \* position of the termination listener started by Execute
  \* ---- main, its shutdown goroutine, the signal goroutine of New ----
  proc,         \* "running", or how the process ended
  mainpc,       \* position of the main goroutine (main, then runAgent)
  shpc,         \* position of main's shutdown goroutine
  sigpc,        \* position of the signal goroutine of New
  sigBuf,       \* signals held in sigChan's buffer (capacity 1)
  sigClosed,    \* sigChan has been closed
  signals,      \* termination signals the OS has delivered so far
  doneSent,     \* values sent on doneChan
  doneRecv,     \* values main's shutdown goroutine received from doneChan
  ctxCancelled, \* the root context has been cancelled
  cancels,      \* calls of cancelContext
  stateLog,     \* the states SetState was called with by main, in call order
  stoppedRes,   \* what SetState(StateStopped) returned to the shutdown goroutine
  req,          \* the change request the service manager is sending, or "none"
  reqLog,       \* the change requests received: <<command, listener>>, in order
  doneLog,      \* the values passed on doneChan: <<sender, receiver>>, in order
  hist,         \* what parseConfig and mdsClient.Get returned, where startup failed
  osLogin,      \* OS Login in the snapshot newMetadata: "on", "off", "nil" for none
  watchers      \* eventsConfig.Watchers of the event manager, {} before events.New

varsU == <<upc, launched, wg, tpc, ret, setCalls, setErr>>

varsA == <<newMetadata, oldMetadata, oldBy, subscribed, delivered, hpc, hev, passWg,
           dataLog>>

varsS == <<handler, managed, initialized, statusChannel, notes, lastCall, ncalls, blocked,
           ipc, tlpc>>

varsM == <<proc, mainpc, shpc, sigpc, sigBuf, sigClosed, signals, doneSent, doneRecv,
           ctxCancelled, cancels, stateLog, stoppedRes, req, reqLog, doneLog, hist,
           osLogin, watchers>>

vars == <<varsU, varsA, varsS, varsM>>

\* What each specification leaves alone.
OthersU == <<varsA, varsS, varsM>>

OthersA == <<varsU, varsS, varsM>>

OthersS == <<varsU, varsA, varsM>>

(***************************************************************************)
(* runUpdate                                                               *)
(***************************************************************************)

\* mgrs: addressMgr plus the three managers of the platform.
NumManagers == 4

Managers == 1..NumManagers

Unset == [dis |-> "unset", tmo |-> "unset", dif |-> "unset"]

BoolStr(b) == IF b THEN "true" ELSE "false"

InitU ==
  /\ upc = "idle"
  /\ launched = 0
  /\ wg = 0
  /\ tpc = [m \in Managers |-> "none"]
  /\ ret = [m \in Managers |-> Unset]
  /\ setCalls = [m \in Managers |-> 0]
  /\ setErr = [m \in Managers |-> "none"]

\* The handler's variables where a specification does not use them.
RestA ==
  /\ newMetadata = <<"nil">>
  /\ oldMetadata = <<"nil">>
  /\ oldBy = 0
  /\ subscribed = FALSE
  /\ delivered = 0
  /\ hpc = <<>>
  /\ hev = <<>>
  /\ passWg = <<>>
  /\ dataLog = <<>>

NoCall == [op |-> "none", state |-> 0, err |-> "nil", emitted |-> 0]

\* Nothing of startup has happened yet.
NoHist == [reg |-> "none", cfg |-> "none", running |-> "none", fetch |-> "none",
           oslogin |-> "none", fatalAt |-> "none"]

\* The service handler's variables where a specification does not use them.
RestS ==
  /\ handler = "systemd"
  /\ managed = FALSE
  /\ initialized = FALSE
  /\ statusChannel = "nil"
  /\ notes = <<>>
  /\ lastCall = NoCall
  /\ ncalls = 0
  /\ blocked = FALSE
  /\ ipc = "none"
  /\ tlpc = "none"

\* main's variables where a specification does not use them.
RestM ==
  /\ proc = "running"
  /\ mainpc = "start"
  /\ shpc = "none"
  /\ sigpc = "none"
  /\ sigBuf = 0
  /\ sigClosed = FALSE
  /\ signals = 0
  /\ doneSent = 0
  /\ doneRecv = 0
  /\ ctxCancelled = FALSE
  /\ cancels = 0
  /\ stateLog = <<>>
  /\ stoppedRes = "none"
  /\ req = "none"
  /\ reqLog = <<>>
  /\ doneLog = <<>>
  /\ hist = NoHist
  /\ osLogin = "nil"
  /\ watchers = {}

\* runUpdate is called: a fresh WaitGroup and a fresh manager list.
RunUpdate ==
  /\ upc \in {"idle", "returned"}
  /\ upc' = "loop"
  /\ launched' = 0
  /\ wg' = 0
  /\ tpc' = [m \in Managers |-> "none"]
  /\ ret' = [m \in Managers |-> Unset]
  /\ setCalls' = [m \in Managers |-> 0]
  /\ setErr' = [m \in Managers |-> "none"]
  /\ UNCHANGED OthersU

\* One iteration of the for loop: wg.Add(1); go func(mgr) {...}(mgr).
Launch ==
  /\ upc = "loop"
  /\ launched < NumManagers
  /\ launched' = launched + 1
  /\ wg' = wg + 1
  /\ tpc' = [tpc EXCEPT ![launched + 1] = "disabled"]
  /\ UNCHANGED <<upc, ret, setCalls, setErr>>
  /\ UNCHANGED OthersU

\* The loop is over: runUpdate reaches wg.Wait().
LoopEnd ==
  /\ upc = "loop"
  /\ launched = NumManagers
  /\ upc' = "wait"
  /\ UNCHANGED <<launched, wg, tpc, ret, setCalls, setErr>>
  /\ UNCHANGED OthersU

\* wg.Wait() returns once the counter is zero, and runUpdate returns.
WgWaitNoJoin ==
  /\ upc = "wait"
  /\ upc' = "returned"
  /\ UNCHANGED <<launched, wg, tpc, ret, setCalls, setErr>>
  /\ UNCHANGED OthersU

WgWait ==
  /\ upc = "wait"
  /\ wg = 0
  /\ upc' = "returned"
  /\ UNCHANGED <<launched, wg, tpc, ret, setCalls, setErr>>
  /\ UNCHANGED OthersU

\* if mgr.disabled(runtime.GOOS) { return }   (the deferred wg.Done runs)
TaskDisabledNoSkip(m, r) ==
  /\ tpc[m] = "disabled"
  /\ ret' = [ret EXCEPT ![m].dis = BoolStr(r)]
  /\ tpc' = [tpc EXCEPT ![m] = "timeout"]
  /\ UNCHANGED <<upc, launched, wg, setCalls, setErr>>
  /\ UNCHANGED OthersU

TaskDisabled(m, r) ==
  /\ tpc[m] = "disabled"
  /\ ret' = [ret EXCEPT ![m].dis = BoolStr(r)]
  /\ IF r
       THEN /\ tpc' = [tpc EXCEPT ![m] = "done"]
            /\ wg' = wg - 1
       ELSE /\ tpc' = [tpc EXCEPT ![m] = "timeout"]
            /\ wg' = wg
  /\ UNCHANGED <<upc, launched, setCalls, setErr>>
  /\ UNCHANGED OthersU

\* !mgr.timeout() && ...: a true timeout() short-circuits diff().
TaskTimeoutAndDiff(m, r) ==
  /\ tpc[m] = "timeout"
  /\ ret' = [ret EXCEPT ![m].tmo = BoolStr(r)]
  /\ tpc' = [tpc EXCEPT ![m] = "diff"]
  /\ UNCHANGED <<upc, launched, wg, setCalls, setErr>>
  /\ UNCHANGED OthersU

TaskTimeout(m, r) ==
  /\ tpc[m] = "timeout"
  /\ ret' = [ret EXCEPT ![m].tmo = BoolStr(r)]
  /\ tpc' = [tpc EXCEPT ![m] = IF r THEN "set" ELSE "diff"]
  /\ UNCHANGED <<upc, launched, wg, setCalls, setErr>>
  /\ UNCHANGED OthersU

\* ... && !mgr.diff() { return }
TaskDiff(m, r) ==
  /\ tpc[m] = "diff"
  /\ ret' = [ret EXCEPT ![m].dif = BoolStr(r)]
  /\ IF r
       THEN /\ tpc' = [tpc EXCEPT ![m] = "set"]
            /\ wg' = wg
       ELSE /\ tpc' = [tpc EXCEPT ![m] = "done"]
            /\ wg' = wg - 1
  /\ UNCHANGED <<upc, launched, setCalls, setErr>>
  /\ UNCHANGED OthersU

\* mgr.set(ctx) is invoked; it may block for any time, or for ever.
TaskSet(m) ==
  /\ tpc[m] = "set"
  /\ tpc' = [tpc EXCEPT ![m] = "inset"]
  /\ setCalls' = [setCalls EXCEPT ![m] = @ + 1]
  /\ UNCHANGED <<upc, launched, wg, ret, setErr>>
  /\ UNCHANGED OthersU

\* mgr.set returns; an error is logged; the deferred wg.Done runs.
TaskSetReturnAbort(m, err) ==
  /\ tpc[m] = "inset"
  /\ setErr' = [setErr EXCEPT ![m] = IF err THEN "err" ELSE "ok"]
  /\ IF err
       THEN /\ tpc' = [n \in Managers |-> IF tpc[n] = "none" THEN "none" ELSE "done"]
            /\ wg' = 0
       ELSE /\ tpc' = [tpc EXCEPT ![m] = "done"]
            /\ wg' = wg - 1
  /\ UNCHANGED <<upc, launched, ret, setCalls>>
  /\ UNCHANGED OthersU

TaskSetReturn(m, err) ==
  /\ tpc[m] = "inset"
  /\ setErr' = [setErr EXCEPT ![m] = IF err THEN "err" ELSE "ok"]
  /\ tpc' = [tpc EXCEPT ![m] = "done"]
  /\ wg' = wg - 1
  /\ UNCHANGED <<upc, launched, ret, setCalls>>
  /\ UNCHANGED OthersU

\* One step of manager m's goroutine.
TaskStep(m) ==
  \/ \E r \in BOOLEAN : TaskDisabled(m, r)
  \/ \E r \in BOOLEAN : TaskTimeout(m, r)
  \/ \E r \in BOOLEAN : TaskDiff(m, r)
  \/ TaskSet(m)
  \/ \E err \in BOOLEAN : TaskSetReturn(m, err)

NextUpdate ==
  \/ RunUpdate
  \/ Launch
  \/ LoopEnd
  \/ WgWait
  \/ \E m \in Managers : TaskStep(m)

InitUpdate ==
  /\ InitU
  /\ RestA
  /\ RestS
  /\ RestM

SpecUpdate == InitUpdate /\ [][NextUpdate]_vars

(***************************************************************************)
(* Claims about runUpdate (checked under SpecUpdate)                       *)
(***************************************************************************)

\* Manager m is dispatch-eligible in this pass: timeout() or diff() was true.
Eligible(m) == ret[m].tmo = "true" \/ ret[m].dif = "true"

\* C1: a manager whose disabled(platform) returned true in this pass never has
\* set invoked in the pass: its goroutine ends at once, without calling
\* timeout(), diff() or set.
C1_DisabledNeverSet ==
  \A m \in Managers :
    ret[m].dis = "true" =>
      /\ setCalls[m] = 0
      /\ tpc[m] = "done"
      /\ setErr[m] = "none"

\* C1 witness: a pass has returned in which one manager was disabled while
\* another manager's set was invoked.
C1_Witness ==
  /\ upc = "returned"
  /\ \E m, n \in Managers :
       /\ ret[m].dis = "true" /\ setCalls[m] = 0
       /\ ret[n].dis = "false" /\ setCalls[n] = 1

\* C2: for a manager that is not disabled, once its goroutine has finished,
\* set was invoked if and only if timeout() or diff() returned true; after a
\* true timeout() the goroutine goes on to set without a true diff().
C2_DispatchPolicy ==
  \A m \in Managers :
    /\ (tpc[m] = "done" /\ ret[m].dis = "false") =>
         (setCalls[m] = 1 <=> Eligible(m))
    /\ (ret[m].tmo = "true") =>
         /\ tpc[m] \in {"set", "inset", "done"}
         /\ ret[m].dif # "true"
         /\ (tpc[m] = "done" => setCalls[m] = 1)

\* C2 witness: a finished goroutine whose timeout() was true, whose diff() did
\* not return true, and whose set was invoked.
C2_Witness ==
  \E m \in Managers :
    /\ tpc[m] = "done"
    /\ ret[m].dis = "false"
    /\ ret[m].tmo = "true"
    /\ ret[m].dif # "true"
    /\ setCalls[m] = 1

\* C3: per-manager isolation. Whatever the other managers' set calls did
\* (returned an error, succeeded, or are still running), a manager that is not
\* disabled and is dispatch-eligible has its set invoked exactly once by the
\* time its goroutine finishes, never more than once, and a goroutine that has
\* reached its set call can always make it.
C3_Isolation ==
  \A m \in Managers :
    /\ setCalls[m] <= 1
    /\ (tpc[m] = "done" /\ ret[m].dis = "false" /\ Eligible(m)) => setCalls[m] = 1
    /\ (ret[m].dis = "false" /\ Eligible(m)) => tpc[m] \in {"set", "inset", "done"}
    /\ (tpc[m] = "set") => ENABLED TaskSet(m)

\* C3 witness: one manager's set has returned an error, another's is still
\* running, and a third, eligible one has had its set invoked once and has
\* finished without error.
C3_Witness ==
  \E a, b, c \in Managers :
    /\ setErr[a] = "err" /\ tpc[a] = "done"
    /\ tpc[b] = "inset"
    /\ tpc[c] = "done" /\ Eligible(c) /\ setCalls[c] = 1 /\ setErr[c] = "ok"

\* C4: fan-out/join. runUpdate has returned only if every goroutine of the
\* pass has finished; while some set call has not returned runUpdate has not
\* returned, and every sibling goroutine that is under way can take its step.
C4_FanOutJoin ==
  /\ (upc = "returned") => (wg = 0 /\ \A m \in Managers : tpc[m] = "done")
  /\ \A m \in Managers :
       (tpc[m] = "inset") =>
         /\ upc # "returned"
         /\ ~ ENABLED WgWait
         /\ \A n \in Managers \ {m} :
              (tpc[n] \notin {"none", "done"}) => ENABLED TaskStep(n)

\* C4 witness: runUpdate is blocked in wg.Wait() on one set call that has not
\* returned while every sibling goroutine has run to completion.
C4_Witness ==
  /\ upc = "wait"
  /\ \E m \in Managers :
       /\ tpc[m] = "inset"
       /\ \A n \in Managers \ {m} : tpc[n] = "done"

\* C22: for every manager that is not disabled, diff() is evaluated in every
\* pass, also when the manager's timeout() returned true: a goroutine that has
\* passed the dispatch condition has a result of diff().
C22_DiffEveryPass ==
  \A m \in Managers :
    (ret[m].dis = "false" /\ tpc[m] \in {"set", "inset", "done"}) =>
      ret[m].dif # "unset"

(***************************************************************************)
(* The long-poll handler of runAgent, under the event manager              *)
(***************************************************************************)

\* Long-poll events the event manager delivers in one run.
MaxEvents == 3

\* Invocations of the callback that can be under way at once.
MaxHandlers == 2

Handlers == 1..MaxHandlers

\* Values of *metadata.Descriptor: nil, the descriptor fetched at startup,
\* the empty descriptor &metadata.Descriptor{}, the one event k carries.
NilMetadata == <<"nil">>

StartupMetadata == <<"startup">>

EmptyMetadata == <<"empty">>

Snap(k) == <<"event", k>>

NoEvent == [id |-> 0, err |-> FALSE, data |-> FALSE]

\* After Subscribe: newMetadata is what startup left (nil when the fetch
\* failed), oldMetadata is the empty descriptor.
InitA ==
  /\ newMetadata \in {NilMetadata, StartupMetadata}
  /\ oldMetadata = EmptyMetadata
  /\ oldBy = 0
  /\ subscribed = TRUE
  /\ delivered = 0
  /\ hpc = [h \in Handlers |-> "idle"]
  /\ hev = [h \in Handlers |-> NoEvent]
  /\ passWg = [h \in Handlers |-> 0]
  /\ dataLog = <<>>

\* The event manager calls the callback with evData = {Error, Data}; the
\* invocation takes the first free slot.
Deliver(h, err, data) ==
  /\ subscribed
  /\ delivered < MaxEvents
  /\ hpc[h] = "idle"
  /\ \A g \in Handlers : g < h => hpc[g] # "idle"
  /\ delivered' = delivered + 1
  /\ hev' = [hev EXCEPT ![h] = [id |-> delivered + 1, err |-> err, data |-> data]]
  /\ hpc' = [hpc EXCEPT ![h] = "entry"]
  /\ dataLog' = IF data /\ ~ err THEN Append(dataLog, delivered + 1) ELSE dataLog
  /\ UNCHANGED <<newMetadata, oldMetadata, oldBy, subscribed, passWg>>
  /\ UNCHANGED OthersA

\* An event delivered when no invocation of the callback is under way.
DeliverSerial(h, err, data) ==
  /\ \A g \in Handlers : hpc[g] = "idle"
  /\ Deliver(h, err, data)

\* An event delivered while an earlier invocation has not returned.
DeliverReentrant(h, err, data) ==
  /\ \E g \in Handlers : hpc[g] # "idle"
  /\ Deliver(h, err, data)

\* The callback returns renew; the event manager drops the subscription of a
\* callback that returns false.
HandlerReturn(h, renew) ==
  /\ hpc' = [hpc EXCEPT ![h] = "idle"]
  /\ subscribed' = (subscribed /\ renew)

\* if evData.Error != nil { return true }; if evData.Data == nil { return true }
HandlerCheckNoError(h) ==
  /\ hpc[h] = "entry"
  /\ IF ~ hev[h].data
       THEN HandlerReturn(h, TRUE)
       ELSE /\ hpc' = [hpc EXCEPT ![h] = "store"]
            /\ subscribed' = subscribed
  /\ UNCHANGED <<newMetadata, oldMetadata, oldBy, delivered, hev, passWg, dataLog>>
  /\ UNCHANGED OthersA

HandlerCheck(h) ==
  /\ hpc[h] = "entry"
  /\ IF hev[h].err
       THEN HandlerReturn(h, TRUE)
       ELSE IF ~ hev[h].data
              THEN HandlerReturn(h, TRUE)
              ELSE /\ hpc' = [hpc EXCEPT ![h] = "store"]
                   /\ subscribed' = subscribed
  /\ UNCHANGED <<newMetadata, oldMetadata, oldBy, delivered, hev, passWg, dataLog>>
  /\ UNCHANGED OthersA

\* newMetadata = evData.Data.(*metadata.Descriptor)
HandlerStore(h) ==
  /\ hpc[h] = "store"
  /\ newMetadata' = Snap(hev[h].id)
  /\ hpc' = [hpc EXCEPT ![h] = "update"]
  /\ UNCHANGED <<oldMetadata, oldBy, subscribed, delivered, hev, passWg, dataLog>>
  /\ UNCHANGED OthersA

\* runUpdate(ctx), up to wg.Wait(): one wg.Add(1) and one goroutine a manager.
HandlerRunUpdate(h) ==
  /\ hpc[h] = "update"
  /\ passWg' = [passWg EXCEPT ![h] = NumManagers]
  /\ hpc' = [hpc EXCEPT ![h] = "wait"]
  /\ UNCHANGED <<newMetadata, oldMetadata, oldBy, subscribed, delivered, hev, dataLog>>
  /\ UNCHANGED OthersA

\* A goroutine of the pass of invocation h finishes: its deferred wg.Done().
\* A goroutine whose set never returns never takes this step.
ManagerDone(h) ==
  /\ passWg[h] > 0
  /\ passWg' = [passWg EXCEPT ![h] = @ - 1]
  /\ UNCHANGED <<newMetadata, oldMetadata, oldBy, subscribed, delivered, hpc, hev, dataLog>>
  /\ UNCHANGED OthersA

\* wg.Wait() returns and so does runUpdate.
HandlerWaitNoJoin(h) ==
  /\ hpc[h] = "wait"
  /\ hpc' = [hpc EXCEPT ![h] = "advance"]
  /\ UNCHANGED <<newMetadata, oldMetadata, oldBy, subscribed, delivered, hev, passWg, dataLog>>
  /\ UNCHANGED OthersA

HandlerWait(h) ==
  /\ hpc[h] = "wait"
  /\ passWg[h] = 0
  /\ hpc' = [hpc EXCEPT ![h] = "advance"]
  /\ UNCHANGED <<newMetadata, oldMetadata, oldBy, subscribed, delivered, hev, passWg, dataLog>>
  /\ UNCHANGED OthersA

\* oldMetadata = newMetadata; return true
HandlerAdvanceSkip(h) ==
  /\ hpc[h] = "advance"
  /\ HandlerReturn(h, TRUE)
  /\ UNCHANGED <<newMetadata, oldMetadata, oldBy, delivered, hev, passWg, dataLog>>
  /\ UNCHANGED OthersA

HandlerAdvance(h) ==
  /\ hpc[h] = "advance"
  /\ oldMetadata' = newMetadata
  /\ oldBy' = hev[h].id
  /\ HandlerReturn(h, TRUE)
  /\ UNCHANGED <<newMetadata, delivered, hev, passWg, dataLog>>
  /\ UNCHANGED OthersA

NextAgent ==
  \/ \E h \in Handlers, err \in BOOLEAN, data \in BOOLEAN : DeliverSerial(h, err, data)
  \/ \E h \in Handlers, err \in BOOLEAN, data \in BOOLEAN : DeliverReentrant(h, err, data)
  \/ \E h \in Handlers : HandlerCheck(h)
  \/ \E h \in Handlers : HandlerStore(h)
  \/ \E h \in Handlers : HandlerRunUpdate(h)
  \/ \E h \in Handlers : ManagerDone(h)
  \/ \E h \in Handlers : HandlerWait(h)
  \/ \E h \in Handlers : HandlerAdvance(h)

InitAgent ==
  /\ InitA
  /\ InitU
  /\ RestS
  /\ RestM

SpecAgent == InitAgent /\ [][NextAgent]_vars

\* The event manager delivers an event only when no invocation of the
\* callback is under way.
NextAgentSerial ==
  \/ \E h \in Handlers, err \in BOOLEAN, data \in BOOLEAN : DeliverSerial(h, err, data)
  \/ \E h \in Handlers : HandlerCheck(h)
  \/ \E h \in Handlers : HandlerStore(h)
  \/ \E h \in Handlers : HandlerRunUpdate(h)
  \/ \E h \in Handlers : ManagerDone(h)
  \/ \E h \in Handlers : HandlerWait(h)
  \/ \E h \in Handlers : HandlerAdvance(h)

SpecAgentSerial == InitAgent /\ [][NextAgentSerial]_vars

(***************************************************************************)
(* Claims about the long-poll handler (checked under SpecAgent)            *)
(***************************************************************************)

\* The event of invocation h is one the handler ignores.
Ignored(h) == hev[h].err \/ ~ hev[h].data

\* C5: an event with Error != nil, or with Error == nil and Data == nil, is
\* never stored and never starts a pass: the step the handler takes on it
\* leaves newMetadata, oldMetadata and every WaitGroup unchanged, returns to
\* the event manager at once and keeps the subscription alive; only an event
\* with data and without error gets past the two checks.
C5_IgnoredEvent ==
  /\ [](\A h \in Handlers :
          (hpc[h] \in {"store", "update", "wait", "advance"}) => ~ Ignored(h))
  /\ [](\A k \in 1..MaxEvents :
          (newMetadata = Snap(k) \/ oldMetadata = Snap(k)) =>
            \A h \in Handlers : (hev[h].id = k) => ~ Ignored(h))
  /\ [][\A h \in Handlers :
          (hpc[h] = "entry" /\ Ignored(h) /\ hpc'[h] # "entry") =>
            /\ newMetadata' = newMetadata
            /\ oldMetadata' = oldMetadata
            /\ passWg' = passWg
            /\ hpc'[h] = "idle"
            /\ subscribed']_vars

\* C5 witness: an event carrying an error has been handled; nothing was
\* stored, no pass is under way and the subscription is alive.
C5_Witness ==
  \E h \in Handlers :
    /\ hev[h].id > 0 /\ hev[h].err
    /\ hpc[h] = "idle"
    /\ newMetadata \in {NilMetadata, StartupMetadata}
    /\ oldMetadata = EmptyMetadata
    /\ \A g \in Handlers : passWg[g] = 0
    /\ subscribed

\* C6 as stated: the handler advances oldMetadata once the fan-out of its pass
\* is launched, without waiting for the managers of the pass to finish; that
\* is, an invocation whose runUpdate has launched its goroutines can always go
\* on to the assignment.
C6_AdvanceWithoutJoin ==
  \A h \in Handlers : (hpc[h] = "wait") => ENABLED HandlerWait(h)

\* C6 as amended: an invocation of the handler advances oldMetadata only
\* after runUpdate has returned, i.e. after every manager goroutine of its own
\* pass has finished; when a goroutine of the pass of an event is still
\* running while oldMetadata equals that event's snapshot, the assignment was
\* made by another invocation of the handler.
C6_AdvanceAfterJoin ==
  \A h \in Handlers :
    /\ (hpc[h] = "advance") => passWg[h] = 0
    /\ (hev[h].id > 0 /\ oldBy = hev[h].id) => (passWg[h] = 0 /\ hpc[h] = "idle")
    /\ (passWg[h] > 0 /\ oldMetadata = Snap(hev[h].id)) => oldBy # hev[h].id

\* C6 witness: the handler of an event has advanced oldMetadata to the
\* event's snapshot and has returned; no goroutine of its pass is running.
C6_Witness ==
  \E h \in Handlers :
    /\ hev[h].id > 0 /\ oldBy = hev[h].id
    /\ oldMetadata = Snap(hev[h].id)
    /\ newMetadata = oldMetadata
    /\ passWg[h] = 0
    /\ hpc[h] = "idle"

\* C7: oldMetadata and newMetadata are never written (lines 232 and 234 of
\* the handler) while a manager goroutine launched by some runUpdate call has
\* not finished.
C7_NoWriteDuringPass ==
  [][\A h \in Handlers :
       ((hpc[h] = "store" \/ hpc[h] = "advance") /\ hpc'[h] # hpc[h]) =>
         \A g \in Handlers : passWg[g] = 0]_vars

\* The snapshot delivered before the k-th one: the empty descriptor of
\* line 216 for the first.
PrevSnap(k) == IF k = 1 THEN EmptyMetadata ELSE Snap(dataLog[k - 1])

\* The handler of the latest event that carried a snapshot has returned.
LastHandled ==
  /\ Len(dataLog) >= 1
  /\ \A h \in Handlers :
       /\ hpc[h] \in {"idle", "entry"}
       /\ hpc[h] = "entry" => hev[h].id # dataLog[Len(dataLog)]

\* C23: under serialized delivery, during the pass of the k-th event that
\* carries a snapshot newMetadata is that snapshot, stored before any manager
\* goroutine starts, and oldMetadata is the (k-1)-th one, the empty
\* descriptor for k = 1 whatever was fetched at startup; once the handler
\* has returned oldMetadata = newMetadata = the k-th snapshot.
C23_SnapshotProgression ==
  /\ \A h \in Handlers :
       /\ hpc[h] \in {"update", "wait", "advance"} =>
            /\ Len(dataLog) >= 1
            /\ hev[h].id = dataLog[Len(dataLog)]
            /\ newMetadata = Snap(dataLog[Len(dataLog)])
            /\ oldMetadata = PrevSnap(Len(dataLog))
       /\ hpc[h] = "store" =>
            /\ oldMetadata = PrevSnap(Len(dataLog))
            /\ newMetadata # Snap(hev[h].id)
       /\ passWg[h] > 0 => hpc[h] = "wait"
  /\ LastHandled =>
       /\ newMetadata = Snap(dataLog[Len(dataLog)])
       /\ oldMetadata = newMetadata

\* C23 witness: the goroutines of the second pass are running with
\* newMetadata the second snapshot and oldMetadata the first one.
C23_Witness ==
  \E h \in Handlers :
    /\ hpc[h] = "wait"
    /\ passWg[h] > 0
    /\ Len(dataLog) = 2
    /\ newMetadata = Snap(dataLog[2])
    /\ oldMetadata = Snap(dataLog[1])

(***************************************************************************)
(* Package service: the serviceHandler of each build                       *)
(***************************************************************************)

\* StateRunning ServiceState = iota, in the const block's second line.
StateRunning == 1

StateStopped == 2

\* The largest ServiceState value a caller passes; 0 and the values above
\* StateStopped are undefined states.
MaxStateValue == 3

ServiceStates == 0..MaxStateValue

\* Register and SetState calls a client makes in one run.
MaxCalls == 3

\* systemdService.systemdContext: os.Getenv("NOTIFY_SOCKET") != "".
systemdContext == managed

\* What run.Quiet(ctx, "systemd-notify", ...) returns.
RunQuiet(ok) == IF ok THEN "nil" ELSE "run"

\* The result of a call: its error, the notifications it sends to the
\* service manager, and whether the caller blocks in a channel send.
Result(err, emit) == [err |-> err, emit |-> emit, blocks |-> FALSE]

\* systemdService.Register
SystemdRegister(ok) ==
  IF ~ systemdContext
    THEN Result("nil", <<>>)
    ELSE Result(RunQuiet(ok), << <<"systemd-notify", "--status='Initializing service...'">> >>)

\* systemdService.SetState
SystemdSetState(state, ok) ==
  IF ~ systemdContext
    THEN Result("nil", <<>>)
    ELSE IF state = StateRunning
      THEN Result(RunQuiet(ok), << <<"systemd-notify", "--ready", "--status='Running service...'">> >>)
      ELSE IF state = StateStopped
        THEN Result(RunQuiet(ok), << <<"systemd-notify", "--status='Stopping service...'">> >>)
        ELSE Result("unknown service state", <<>>)

\* A send on wh.statusChannel: a send on a nil channel blocks for ever.
StatusSend(status) ==
  IF statusChannel = "nil"
    THEN [err |-> "nil", emit |-> <<>>, blocks |-> TRUE]
    ELSE Result("nil", << <<"status", status>> >>)

\* winService.SetState
WinSetState(state) ==
  IF state = StateRunning
    THEN StatusSend("Running")
    ELSE IF state = StateStopped
      THEN StatusSend("StopPending")
      ELSE Result("unknown service state", <<>>)

\* winService.Register: svc.Run(serviceName, wh) connects to the service
\* control manager, which calls wh.Execute; it fails when the process was not
\* started by the service control manager.
WinRegisterAlways(ok) ==
  IF managed
    THEN Result(IF ok THEN "nil" ELSE "failed to register windows service",
                << <<"svc.Run">>, <<"status", "StartPending">> >>)
    ELSE Result("failed to register windows service", << <<"svc.Run">> >>)

WinRegister(ok) ==
  IF initialized
    THEN Result("nil", <<>>)
    ELSE IF managed
      THEN Result(IF ok THEN "nil" ELSE "failed to register windows service",
                  << <<"svc.Run">>, <<"status", "StartPending">> >>)
      ELSE Result("failed to register windows service", << <<"svc.Run">> >>)

\* svc.Run calls wh.Execute when the process runs under the service control
\* manager and the handler is not initialized yet.
ExecuteRuns == handler = "windows" /\ ~ initialized /\ managed

\* Manager.Register: mn.handler.Register(ctx). On Windows, Execute sets
\* wh.statusChannel, sends StartPending and starts the two listeners.
Register(ok) ==
  LET r == IF handler = "systemd" THEN SystemdRegister(ok) ELSE WinRegister(ok) IN
  /\ notes' = notes \o r.emit
  /\ lastCall' = [op |-> "Register", state |-> 0, err |-> r.err, emitted |-> Len(r.emit)]
  /\ statusChannel' = IF ExecuteRuns THEN "open" ELSE statusChannel
  /\ ipc' = IF ExecuteRuns THEN "select" ELSE ipc
  /\ tlpc' = IF ExecuteRuns THEN "select" ELSE tlpc
  /\ initialized' = (initialized \/ (handler = "windows" /\ r.err = "nil"))
  /\ blocked' = blocked
  /\ UNCHANGED <<handler, managed>>

\* What mn.handler.SetState(ctx, state) does in the current state.
SetStateResult(state, ok) ==
  IF handler = "systemd" THEN SystemdSetState(state, ok) ELSE WinSetState(state)

\* Manager.SetState: mn.handler.SetState(ctx, state)
SetState(state, ok) ==
  LET r == SetStateResult(state, ok) IN
  /\ notes' = notes \o r.emit
  /\ lastCall' = [op |-> "SetState", state |-> state, err |-> r.err, emitted |-> Len(r.emit)]
  /\ blocked' = (blocked \/ r.blocks)
  /\ UNCHANGED <<handler, managed, initialized, statusChannel, ipc, tlpc>>

\* A build and how the process was launched.
InitS ==
  /\ handler \in {"systemd", "windows"}
  /\ managed \in BOOLEAN
  /\ initialized = FALSE
  /\ statusChannel = "nil"
  /\ notes = <<>>
  /\ lastCall = NoCall
  /\ ncalls = 0
  /\ blocked = FALSE
  /\ ipc = "none"
  /\ tlpc = "none"

\* A client calls Register.
CallRegister(ok) ==
  /\ ncalls < MaxCalls
  /\ ~ blocked
  /\ Register(ok)
  /\ ncalls' = ncalls + 1
  /\ UNCHANGED OthersS

\* A client calls SetState with any value of ServiceState.
CallSetState(state, ok) ==
  /\ ncalls < MaxCalls
  /\ ~ blocked
  /\ SetState(state, ok)
  /\ ncalls' = ncalls + 1
  /\ UNCHANGED OthersS

NextService ==
  \/ \E ok \in BOOLEAN : CallRegister(ok)
  \/ \E state \in ServiceStates, ok \in BOOLEAN : CallSetState(state, ok)

InitService ==
  /\ InitS
  /\ InitU
  /\ RestA
  /\ RestM

SpecService == InitService /\ [][NextService]_vars

(***************************************************************************)
(* Claims about the service handlers (checked under SpecService)           *)
(***************************************************************************)

\* C8: a SetState call with a state value that is neither StateRunning nor
\* StateStopped returns the 'unknown service state' error and sends nothing to
\* the service manager, on either handler, launched under the service manager
\* or not.
C8_UnknownStateFails ==
  (lastCall.op = "SetState" /\ lastCall.state \notin {StateRunning, StateStopped}) =>
    (lastCall.err = "unknown service state" /\ lastCall.emitted = 0)

\* The arguments of a notification contain x.
Has(note, x) == \E i \in 1..Len(note) : note[i] = x

\* The step is a Register call of a client.
RegisterCalled == ncalls' = ncalls + 1 /\ lastCall'.op = "Register"

\* C16: when the process is launched standalone (no notify socket, no service
\* control manager), Register makes no announcement to the service manager
\* (no systemd-notify run, no start of the service control dispatcher) and
\* returns success, on both handlers.
C16_StandaloneRegisterNoop ==
  (lastCall.op = "Register" /\ ~ managed) =>
    (lastCall.err = "nil" /\ lastCall.emitted = 0)

\* C17: Register is idempotent on the Windows handler: once a Register call
\* has succeeded every further call returns success and registers nothing;
\* while no call has succeeded each call runs the registration, and the
\* handler becomes initialized exactly when that registration succeeds.
C17_RegisterIdempotent ==
  [][(handler = "windows" /\ RegisterCalled) =>
       IF initialized
         THEN /\ lastCall'.err = "nil"
              /\ lastCall'.emitted = 0
              /\ notes' = notes
              /\ initialized'
         ELSE /\ lastCall'.emitted >= 1
              /\ notes'[Len(notes) + 1] = <<"svc.Run">>
              /\ initialized' = (lastCall'.err = "nil")]_vars

\* C17 witness: on Windows a Register call after a successful one has
\* returned success without registering again.
C17_Witness ==
  /\ handler = "windows"
  /\ initialized
  /\ ncalls >= 2
  /\ lastCall.op = "Register"
  /\ lastCall.err = "nil"
  /\ lastCall.emitted = 0
  /\ Len(notes) >= 2

\* C18: on the systemd handler launched under systemd, Register emits a
\* status notification, SetState(Running) a ready notification with a status
\* and SetState(Stopped) a stopping notification with a status; each call
\* emits exactly one notification and returns its result.
C18_SystemdNotifications ==
  (handler = "systemd" /\ managed /\ lastCall.op # "none"
     /\ (lastCall.op = "SetState" => lastCall.state \in {StateRunning, StateStopped})) =>
    /\ lastCall.emitted = 1
    /\ lastCall.err \in {RunQuiet(TRUE), RunQuiet(FALSE)}
    /\ notes[Len(notes)][1] = "systemd-notify"
    /\ lastCall.op = "Register" =>
         Has(notes[Len(notes)], "--status='Initializing service...'")
    /\ (lastCall.op = "SetState" /\ lastCall.state = StateRunning) =>
         /\ Has(notes[Len(notes)], "--ready")
         /\ Has(notes[Len(notes)], "--status='Running service...'")
    /\ (lastCall.op = "SetState" /\ lastCall.state = StateStopped) =>
         /\ Has(notes[Len(notes)], "--stopping")
         /\ Has(notes[Len(notes)], "--status='Stopping service...'")

(***************************************************************************)
(* main, its shutdown goroutine, the signal goroutine of service.New and   *)
(* the two listeners of winService.Execute                                 *)
(***************************************************************************)

\* Termination signals the OS delivers in one run.
MaxSignals == 2

\* Change requests the service control manager sends in one run.
MaxRequests == 2

\* Long-poll events with a snapshot delivered while Run is running.
MaxPasses == 1

\* The commands the service accepts (AcceptStop | AcceptShutdown), and
\* Interrogate, which is always accepted.
Commands == {"Interrogate", "Stop", "Shutdown"}

\* What main does not touch of the handler's state, and of the rest.
MainFrame == <<varsU, ncalls>>

MetadataFrame == <<newMetadata, oldMetadata, oldBy, subscribed, delivered, hpc, hev, passWg,
                   dataLog>>

ServiceFrame == <<handler, managed, initialized, statusChannel, notes, lastCall, blocked,
                  ipc, tlpc>>

\* The OS Login flag of the current snapshot and the watcher set.
WatchFrame == <<osLogin, watchers>>

\* The request channel of Execute and what has passed through it.
ScmFrame == <<req, reqLog>>

InitM ==
  /\ proc = "running"
  /\ mainpc = "start"
  /\ shpc = "none"
  /\ sigpc = "none"
  /\ sigBuf = 0
  /\ sigClosed = FALSE
  /\ signals = 0
  /\ doneSent = 0
  /\ doneRecv = 0
  /\ ctxCancelled = FALSE
  /\ cancels = 0
  /\ stateLog = <<>>
  /\ stoppedRes = "none"
  /\ req = "none"
  /\ reqLog = <<>>
  /\ doneLog = <<>>
  /\ hist = NoHist
  /\ osLogin = "nil"
  /\ watchers = {}

\* svc := service.New(): the channels, signal.Notify, the signal goroutine.
MainNew ==
  /\ proc = "running"
  /\ mainpc = "start"
  /\ mainpc' = "spawn"
  /\ sigpc' = "recv"
  /\ UNCHANGED <<proc, shpc, sigBuf, sigClosed, signals, doneSent, doneRecv,
                 ctxCancelled, cancels, stateLog, stoppedRes, doneLog, hist>>
  /\ UNCHANGED <<WatchFrame, MainFrame, MetadataFrame, ServiceFrame, ScmFrame>>

\* go func() { <-svc.Done(); ... }()
MainSpawn ==
  /\ proc = "running"
  /\ mainpc = "spawn"
  /\ mainpc' = "register"
  /\ shpc' = "recv"
  /\ UNCHANGED <<proc, sigpc, sigBuf, sigClosed, signals, doneSent, doneRecv,
                 ctxCancelled, cancels, stateLog, stoppedRes, doneLog, hist>>
  /\ UNCHANGED <<WatchFrame, MainFrame, MetadataFrame, ServiceFrame, ScmFrame>>

\* if err := svc.Register(ctx); err != nil { logger.Fatalf(...) }
MainRegister(ok) ==
  /\ proc = "running"
  /\ mainpc = "register"
  /\ Register(ok)
  /\ IF lastCall'.err = "nil"
       THEN /\ mainpc' = "loggerInit"
            /\ proc' = proc
            /\ hist' = [hist EXCEPT !.reg = "nil"]
       ELSE /\ mainpc' = "fatal"
            /\ proc' = "fatal"
            /\ hist' = [hist EXCEPT !.reg = lastCall'.err, !.fatalAt = "register"]
  /\ UNCHANGED <<shpc, sigpc, sigBuf, sigClosed, signals, doneSent, doneRecv,
                 ctxCancelled, cancels, stateLog, stoppedRes, doneLog>>
  /\ UNCHANGED <<WatchFrame, MainFrame, MetadataFrame, ScmFrame>>

\* A step of runAgent that either fails, which is fatal in main, or goes on;
\* what it does to the snapshot and the watcher set is said by its caller;
\* h is what the step has learnt.
MainStep(from, to, ok, h) ==
  /\ proc = "running"
  /\ mainpc = from
  /\ IF ok
       THEN /\ mainpc' = to
            /\ proc' = proc
            /\ hist' = h
       ELSE /\ mainpc' = "fatal"
            /\ proc' = "fatal"
            /\ hist' = [h EXCEPT !.fatalAt = from]
  /\ UNCHANGED <<shpc, sigpc, sigBuf, sigClosed, signals, doneSent, doneRecv,
                 ctxCancelled, cancels, stateLog, stoppedRes, doneLog>>
  /\ UNCHANGED <<MainFrame, ServiceFrame, ScmFrame>>

\* logger.Init(ctx, opts): an error is returned to main.
MainLoggerInit(ok) ==
  /\ MainStep("loggerInit", "parseConfig", ok, hist)
  /\ UNCHANGED <<MetadataFrame, WatchFrame>>

\* parseConfig(cfgfile): a missing file is tolerated, any other error returned.
MainParseConfig(res) ==
  /\ MainStep("parseConfig", "agentInit", res \in {"ok", "missing"},
              [hist EXCEPT !.cfg = res])
  /\ UNCHANGED <<MetadataFrame, WatchFrame>>

\* mdsClient = metadata.New(); agentInit(ctx), which may have fetched the
\* metadata already.
MainAgentInit(got) ==
  /\ MainStep("agentInit", "setRunning", TRUE, hist)
  /\ newMetadata' = IF got THEN <<"startup">> ELSE <<"nil">>
  /\ osLogin' \in IF got THEN {"on", "off"} ELSE {"nil"}
  /\ UNCHANGED <<oldMetadata, oldBy, subscribed, delivered, hpc, hev, passWg, dataLog,
                 watchers>>

\* if err := svc.SetState(ctx, service.StateRunning); err != nil { return ... }
MainSetRunningIgnoreError(ok) ==
  /\ proc = "running"
  /\ mainpc = "setRunning"
  /\ SetState(StateRunning, ok)
  /\ stateLog' = Append(stateLog, StateRunning)
  /\ IF SetStateResult(StateRunning, ok).blocks
       THEN /\ mainpc' = "blocked"
            /\ hist' = [hist EXCEPT !.running = "blocked"]
       ELSE /\ mainpc' = "fetch"
            /\ hist' = [hist EXCEPT !.running = lastCall'.err]
  /\ proc' = proc
  /\ UNCHANGED <<shpc, sigpc, sigBuf, sigClosed, signals, doneSent, doneRecv,
                 ctxCancelled, cancels, stoppedRes, doneLog>>
  /\ UNCHANGED <<WatchFrame, MainFrame, MetadataFrame, ScmFrame>>

MainSetRunning(ok) ==
  /\ proc = "running"
  /\ mainpc = "setRunning"
  /\ SetState(StateRunning, ok)
  /\ stateLog' = Append(stateLog, StateRunning)
  /\ IF SetStateResult(StateRunning, ok).blocks
       THEN /\ mainpc' = "blocked"
            /\ proc' = proc
            /\ hist' = [hist EXCEPT !.running = "blocked"]
       ELSE IF lastCall'.err = "nil"
         THEN /\ mainpc' = "fetch"
              /\ proc' = proc
              /\ hist' = [hist EXCEPT !.running = "nil"]
         ELSE /\ mainpc' = "fatal"
              /\ proc' = "fatal"
              /\ hist' = [hist EXCEPT !.running = lastCall'.err, !.fatalAt = "setRunning"]
  /\ UNCHANGED <<shpc, sigpc, sigBuf, sigClosed, signals, doneSent, doneRecv,
                 ctxCancelled, cancels, stoppedRes, doneLog>>
  /\ UNCHANGED <<WatchFrame, MainFrame, MetadataFrame, ScmFrame>>

\* if newMetadata == nil { newMetadata, err = mdsClient.Get(ctx) }: an error
\* is logged only.
MainFetchFatal(ok) ==
  /\ MainStep("fetch", "eventsNew", newMetadata # <<"nil">> \/ ok,
              [hist EXCEPT !.fetch = IF newMetadata # <<"nil">> THEN "skipped"
                                     ELSE IF ok THEN "ok" ELSE "failed"])
  /\ newMetadata' = IF newMetadata = <<"nil">> /\ ok THEN <<"startup">> ELSE newMetadata
  /\ osLogin' \in IF newMetadata = <<"nil">> /\ ok THEN {"on", "off"} ELSE {osLogin}
  /\ UNCHANGED <<oldMetadata, oldBy, subscribed, delivered, hpc, hev, passWg, dataLog,
                 watchers>>

MainFetch(ok) ==
  /\ MainStep("fetch", "eventsNew", TRUE,
              [hist EXCEPT !.fetch = IF newMetadata # <<"nil">> THEN "skipped"
                                     ELSE IF ok THEN "ok" ELSE "failed"])
  /\ newMetadata' = IF newMetadata = <<"nil">> /\ ok THEN <<"startup">> ELSE newMetadata
  /\ osLogin' \in IF newMetadata = <<"nil">> /\ ok THEN {"on", "off"} ELSE {osLogin}
  /\ UNCHANGED <<oldMetadata, oldBy, subscribed, delivered, hpc, hev, passWg, dataLog,
                 watchers>>

\* getOSLoginEnabled(newMetadata): OS Login is enabled in the snapshot; no
\* snapshot counts as not enabled.
getOSLoginEnabled(flag) == flag = "on"

\* eventsConfig.Watchers: the metadata watcher, and the sshtrustedca watcher
\* when OS Login is enabled.
EventsConfig(flag) ==
  {"mdsEvent.WatcherID"} \cup
  (IF getOSLoginEnabled(flag) THEN {"sshtrustedca.WatcherID"} ELSE {})

\* logger re-init, scheduler.ScheduleJobs, events.New(eventsConfig), sshca.Init.
MainEventsNewAlwaysCA(ok) ==
  /\ MainStep("eventsNew", "subscribe", ok,
              IF ok THEN [hist EXCEPT !.oslogin = osLogin] ELSE hist)
  /\ watchers' = IF ok THEN EventsConfig("on") ELSE watchers
  /\ UNCHANGED <<MetadataFrame, osLogin>>

MainEventsNew(ok) ==
  /\ MainStep("eventsNew", "subscribe", ok,
              IF ok THEN [hist EXCEPT !.oslogin = osLogin] ELSE hist)
  /\ watchers' = IF ok THEN EventsConfig(osLogin) ELSE watchers
  /\ UNCHANGED <<MetadataFrame, osLogin>>

\* oldMetadata = &metadata.Descriptor{}; eventManager.Subscribe(...)
MainSubscribe ==
  /\ MainStep("subscribe", "run", TRUE, hist)
  /\ oldMetadata' = <<"empty">>
  /\ subscribed' = TRUE
  /\ UNCHANGED <<newMetadata, oldBy, delivered, hpc, hev, passWg, dataLog>>
  /\ UNCHANGED WatchFrame

\* Inside eventManager.Run a long-poll event with a snapshot is delivered to
\* the subscribed handler, which stores it, runs a pass and advances
\* oldMetadata.
MainEvent ==
  /\ proc = "running"
  /\ mainpc = "run"
  /\ subscribed
  /\ delivered < MaxPasses
  /\ delivered' = delivered + 1
  /\ newMetadata' = Snap(delivered + 1)
  /\ oldMetadata' = Snap(delivered + 1)
  /\ oldBy' = delivered + 1
  /\ dataLog' = Append(dataLog, delivered + 1)
  /\ osLogin' \in {"on", "off"}
  /\ UNCHANGED <<subscribed, hpc, hev, passWg, watchers>>
  /\ UNCHANGED <<proc, mainpc, shpc, sigpc, sigBuf, sigClosed, signals, doneSent, doneRecv,
                 ctxCancelled, cancels, stateLog, stoppedRes, doneLog, hist>>
  /\ UNCHANGED <<MainFrame, ServiceFrame, ScmFrame>>

\* eventManager.Run(ctx) blocks until the context is cancelled.
RunReturns == ctxCancelled

\* eventManager.Run(ctx) returns; runAgent returns nil and main returns.
MainRunReturn ==
  /\ proc = "running"
  /\ mainpc = "run"
  /\ RunReturns
  /\ mainpc' = "returned"
  /\ proc' = "exited"
  /\ UNCHANGED <<shpc, sigpc, sigBuf, sigClosed, signals, doneSent, doneRecv,
                 ctxCancelled, cancels, stateLog, stoppedRes, doneLog, hist>>
  /\ UNCHANGED <<WatchFrame, MainFrame, MetadataFrame, ServiceFrame, ScmFrame>>

\* The OS delivers a termination signal. Before signal.Notify it ends the
\* process; afterwards the runtime sends it on sigChan without blocking: it
\* is dropped when the buffer is full, and the send panics on a closed channel.
Signal ==
  /\ proc = "running"
  /\ signals < MaxSignals
  /\ signals' = signals + 1
  /\ IF mainpc = "start"
       THEN proc' = "killed" /\ sigBuf' = sigBuf
       ELSE IF sigClosed
         THEN proc' = "panic" /\ sigBuf' = sigBuf
         ELSE proc' = proc /\ sigBuf' = 1
  /\ UNCHANGED <<mainpc, shpc, sigpc, sigClosed, doneSent, doneRecv,
                 ctxCancelled, cancels, stateLog, stoppedRes, doneLog, hist>>
  /\ UNCHANGED <<WatchFrame, MainFrame, MetadataFrame, ServiceFrame, ScmFrame>>

\* sig := <-sigChan
SigRecv ==
  /\ proc = "running"
  /\ sigpc = "recv"
  /\ sigBuf = 1
  /\ sigBuf' = 0
  /\ sigpc' = "close"
  /\ UNCHANGED <<proc, mainpc, shpc, sigClosed, signals, doneSent, doneRecv,
                 ctxCancelled, cancels, stateLog, stoppedRes, doneLog, hist>>
  /\ UNCHANGED <<WatchFrame, MainFrame, MetadataFrame, ServiceFrame, ScmFrame>>

\* close(sigChan)
SigClose ==
  /\ proc = "running"
  /\ sigpc = "close"
  /\ sigClosed' = TRUE
  /\ sigpc' = "send"
  /\ UNCHANGED <<proc, mainpc, shpc, sigBuf, signals, doneSent, doneRecv,
                 ctxCancelled, cancels, stateLog, stoppedRes, doneLog, hist>>
  /\ UNCHANGED <<WatchFrame, MainFrame, MetadataFrame, ServiceFrame, ScmFrame>>

\* The service control manager sends a change request on Execute's request
\* channel, once Execute has run.
ScmRequest(cmd) ==
  /\ proc = "running"
  /\ handler = "windows"
  /\ statusChannel = "open"
  /\ req = "none"
  /\ Len(reqLog) < MaxRequests
  /\ req' = cmd
  /\ UNCHANGED <<proc, mainpc, shpc, sigpc, sigBuf, sigClosed, signals, doneSent, doneRecv,
                 ctxCancelled, cancels, stateLog, stoppedRes, reqLog, doneLog, hist>>
  /\ UNCHANGED <<WatchFrame, MainFrame, MetadataFrame, ServiceFrame>>

\* The goroutines that are at a send on doneChan: the signal goroutine of New
\* and the termination listener after a Stop or Shutdown request.
DoneSenders ==
  (IF sigpc = "send" THEN {"signal"} ELSE {}) \cup
  (IF tlpc = "send" THEN {"termination"} ELSE {})

\* The goroutines that are at a receive from doneChan: main's shutdown
\* goroutine and the select of each listener.
DoneReceivers ==
  (IF shpc = "recv" THEN {"shutdown"} ELSE {}) \cup
  (IF ipc = "select" THEN {"interrogate"} ELSE {}) \cup
  (IF tlpc = "select" THEN {"termination"} ELSE {})

\* A send on doneChan meets a receive: doneChan is unbuffered and each value
\* goes to one receiver. The sender goes on (both senders end after the
\* send); a listener that receives does not renew.
DoneHandoff(s, r) ==
  /\ proc = "running"
  /\ s \in DoneSenders
  /\ r \in DoneReceivers
  /\ sigpc' = IF s = "signal" THEN "end" ELSE sigpc
  /\ tlpc' = IF s = "termination" \/ r = "termination" THEN "end" ELSE tlpc
  /\ ipc' = IF r = "interrogate" THEN "end" ELSE ipc
  /\ shpc' = IF r = "shutdown" THEN "setStopped" ELSE shpc
  /\ doneSent' = doneSent + 1
  /\ doneRecv' = IF r = "shutdown" THEN doneRecv + 1 ELSE doneRecv
  /\ doneLog' = Append(doneLog, <<s, r>>)
  /\ UNCHANGED <<proc, mainpc, sigBuf, sigClosed, signals,
                 ctxCancelled, cancels, stateLog, stoppedRes, hist>>
  /\ UNCHANGED <<handler, managed, initialized, statusChannel, notes, lastCall, blocked>>
  /\ UNCHANGED <<WatchFrame, MainFrame, MetadataFrame, ScmFrame>>

\* handleInterrogate, case req := <-request: an Interrogate request is
\* answered on the status channel and the listener renews; after any other
\* command the function returns false.
InterrogateRequest ==
  /\ proc = "running"
  /\ ipc = "select"
  /\ req # "none"
  /\ req' = "none"
  /\ reqLog' = Append(reqLog, <<req, "interrogate">>)
  /\ IF req = "Interrogate"
       THEN /\ notes' = Append(notes, <<"status", "CurrentStatus">>)
            /\ ipc' = "select"
       ELSE /\ notes' = notes
            /\ ipc' = "end"
  /\ UNCHANGED <<handler, managed, initialized, statusChannel, lastCall, blocked, tlpc>>
  /\ UNCHANGED <<proc, mainpc, shpc, sigpc, sigBuf, sigClosed, signals, doneSent, doneRecv,
                 ctxCancelled, cancels, stateLog, stoppedRes, doneLog, hist>>
  /\ UNCHANGED <<WatchFrame, MainFrame, MetadataFrame>>

\* handleInterrogate, default: neither channel is ready, do not renew.
InterrogateDefault ==
  /\ proc = "running"
  /\ ipc = "select"
  /\ ipc' = "end"
  /\ UNCHANGED <<handler, managed, initialized, statusChannel, notes, lastCall, blocked, tlpc>>
  /\ UNCHANGED <<proc, mainpc, shpc, sigpc, sigBuf, sigClosed, signals, doneSent, doneRecv,
                 ctxCancelled, cancels, stateLog, stoppedRes, doneLog, hist>>
  /\ UNCHANGED <<WatchFrame, MainFrame, MetadataFrame, ScmFrame>>

\* handleTermination, case req := <-request: Stop and Shutdown go on to
\* wh.doneChan <- true; any other command is dropped and the listener renews.
TerminationRequest ==
  /\ proc = "running"
  /\ tlpc = "select"
  /\ req # "none"
  /\ req' = "none"
  /\ reqLog' = Append(reqLog, <<req, "termination">>)
  /\ tlpc' = IF req \in {"Stop", "Shutdown"} THEN "send" ELSE "select"
  /\ UNCHANGED <<handler, managed, initialized, statusChannel, notes, lastCall, blocked, ipc>>
  /\ UNCHANGED <<proc, mainpc, shpc, sigpc, sigBuf, sigClosed, signals, doneSent, doneRecv,
                 ctxCancelled, cancels, stateLog, stoppedRes, doneLog, hist>>
  /\ UNCHANGED <<WatchFrame, MainFrame, MetadataFrame>>

\* if err := svc.SetState(ctx, service.StateStopped); err != nil { Fatalf }
ShutdownSetStoppedIgnoreError(ok) ==
  /\ proc = "running"
  /\ shpc = "setStopped"
  /\ SetState(StateStopped, ok)
  /\ stateLog' = Append(stateLog, StateStopped)
  /\ stoppedRes' = IF SetStateResult(StateStopped, ok).blocks THEN "blocked" ELSE lastCall'.err
  /\ shpc' = IF SetStateResult(StateStopped, ok).blocks THEN "blocked" ELSE "cancel"
  /\ proc' = proc
  /\ UNCHANGED <<mainpc, sigpc, sigBuf, sigClosed, signals, doneSent, doneRecv,
                 ctxCancelled, cancels, doneLog, hist>>
  /\ UNCHANGED <<WatchFrame, MainFrame, MetadataFrame, ScmFrame>>

ShutdownSetStopped(ok) ==
  /\ proc = "running"
  /\ shpc = "setStopped"
  /\ SetState(StateStopped, ok)
  /\ stateLog' = Append(stateLog, StateStopped)
  /\ stoppedRes' = IF SetStateResult(StateStopped, ok).blocks THEN "blocked" ELSE lastCall'.err
  /\ IF SetStateResult(StateStopped, ok).blocks
       THEN /\ shpc' = "blocked"
            /\ proc' = proc
       ELSE IF lastCall'.err = "nil"
         THEN /\ shpc' = "cancel"
              /\ proc' = proc
         ELSE /\ shpc' = "fatal"
              /\ proc' = "fatal"
  /\ UNCHANGED <<mainpc, sigpc, sigBuf, sigClosed, signals, doneSent, doneRecv,
                 ctxCancelled, cancels, doneLog, hist>>
  /\ UNCHANGED <<WatchFrame, MainFrame, MetadataFrame, ScmFrame>>

\* cancelContext()
ShutdownCancel ==
  /\ proc = "running"
  /\ shpc = "cancel"
  /\ ctxCancelled' = TRUE
  /\ cancels' = cancels + 1
  /\ shpc' = "end"
  /\ UNCHANGED <<proc, mainpc, sigpc, sigBuf, sigClosed, signals, doneSent, doneRecv,
                 stateLog, stoppedRes, doneLog, hist>>
  /\ UNCHANGED <<WatchFrame, MainFrame, MetadataFrame, ServiceFrame, ScmFrame>>

\* The steps of the main goroutine.
MainGoroutine ==
  \/ MainNew
  \/ MainSpawn
  \/ \E ok \in BOOLEAN : MainRegister(ok)
  \/ \E ok \in BOOLEAN : MainLoggerInit(ok)
  \/ \E res \in {"ok", "missing", "malformed"} : MainParseConfig(res)
  \/ \E got \in BOOLEAN : MainAgentInit(got)
  \/ \E ok \in BOOLEAN : MainSetRunning(ok)
  \/ \E ok \in BOOLEAN : MainFetch(ok)
  \/ \E ok \in BOOLEAN : MainEventsNew(ok)
  \/ MainSubscribe
  \/ MainRunReturn

\* The steps of the signal goroutine of New, up to its send.
SignalGoroutine == SigRecv \/ SigClose

\* A rendezvous on doneChan between any sender and any receiver.
Handoff == \E s \in {"signal", "termination"}, r \in {"shutdown", "interrogate", "termination"} :
             DoneHandoff(s, r)

\* The steps of the two listeners of Execute.
InterrogateListener == InterrogateRequest \/ InterrogateDefault

TerminationListener == TerminationRequest

\* The steps of main's shutdown goroutine after its receive.
ShutdownGoroutine ==
  \/ \E ok \in BOOLEAN : ShutdownSetStopped(ok)
  \/ ShutdownCancel

\* What the environment does: signals, change requests, metadata events.
Environment ==
  \/ Signal
  \/ \E cmd \in Commands : ScmRequest(cmd)
  \/ MainEvent

NextMain ==
  \/ MainGoroutine
  \/ SignalGoroutine
  \/ Handoff
  \/ InterrogateListener
  \/ TerminationListener
  \/ ShutdownGoroutine
  \/ Environment

InitMain ==
  /\ InitM
  /\ InitS
  /\ InitU
  /\ RestA

SpecMain == InitMain /\ [][NextMain]_vars

\* The Go scheduler runs every goroutine that can take a step, and a send and
\* a receive that wait for each other on doneChan meet; the environment owes
\* nothing.
FairMain ==
  /\ WF_vars(MainGoroutine)
  /\ WF_vars(SignalGoroutine)
  /\ WF_vars(Handoff)
  /\ WF_vars(InterrogateListener)
  /\ WF_vars(TerminationListener)
  /\ WF_vars(ShutdownGoroutine)

SpecMainFair == SpecMain /\ FairMain

(***************************************************************************)
(* Claims about main (checked under SpecMain)                              *)
(***************************************************************************)

\* The number of SetState calls made with state s.
Calls(s) == Cardinality({i \in 1..Len(stateLog) : stateLog[i] = s})

\* C9: in an execution of main SetState(Running) is called at most once,
\* SetState(Stopped) is called at most once, and SetState(Running) is never
\* called after SetState(Stopped) has been called.
C9_RunningNeverAfterStopped ==
  /\ Calls(StateRunning) <= 1
  /\ Calls(StateStopped) <= 1
  /\ \A i, j \in 1..Len(stateLog) :
       (i < j /\ stateLog[i] = StateStopped) => stateLog[j] # StateRunning

\* C10: the root context is cancelled at most once, by the shutdown
\* goroutine, and only after that goroutine has received a value from the done
\* channel and SetState(Stopped) has returned to it without error; when
\* SetState(Stopped) returns an error the process aborts and the context is
\* never cancelled.
C10_CancelOnlyAfterStopped ==
  /\ cancels <= 1
  /\ ctxCancelled <=> (cancels = 1)
  /\ ctxCancelled =>
       /\ shpc = "end"
       /\ doneRecv = 1
       /\ stoppedRes = "nil"
       /\ Calls(StateStopped) = 1
  /\ (shpc \in {"none", "recv", "setStopped"}) => ~ ctxCancelled
  /\ (stoppedRes \notin {"none", "nil"}) => (~ ctxCancelled /\ shpc # "cancel")
  /\ (stoppedRes \notin {"none", "nil", "blocked"}) => proc = "fatal"

\* C10 witness: the context has been cancelled after a signal was handed to
\* the shutdown goroutine and SetState(Stopped) succeeded.
C10_Witness ==
  /\ ctxCancelled
  /\ signals >= 1
  /\ doneRecv = 1
  /\ stoppedRes = "nil"
  /\ stateLog # <<>>

\* A Stop or Shutdown request has been received by a listener.
StopReceived == \E i \in 1..Len(reqLog) : reqLog[i][1] \in {"Stop", "Shutdown"}

\* The process has ended: it returned from main, or it was ended by a fatal
\* error, a panic or an unhandled signal.
Ended == proc # "running"

\* C11: whenever a termination signal is delivered, under fair scheduling
\* the value sent on the done channel is eventually received by main's
\* shutdown goroutine, the state is set to Stopped, the root context is
\* cancelled and the event manager's Run returns, in that order, on either
\* handler and wherever in startup the signal arrives (unless the process
\* is ended first by a fatal error).
C11_GracefulShutdown ==
  /\ [](/\ Calls(StateStopped) >= 1 => doneRecv = 1
        /\ ctxCancelled => Calls(StateStopped) = 1
        /\ mainpc = "returned" => ctxCancelled)
  /\ (signals >= 1) ~> (mainpc = "returned" \/ Ended)

\* C12: over any execution at most one value is sent on, and received from,
\* the done channel, whether shutdown is asked by a signal, by a Stop or
\* Shutdown command, or by both.
C12_AtMostOneDone ==
  /\ doneSent <= 1
  /\ Len(doneLog) <= 1
  /\ doneRecv <= 1

\* C13: on the Windows handler no Stop or Shutdown request is consumed by a
\* listener without being forwarded on the done channel, each is forwarded
\* once, and no forwarded value is received by a listener instead of main's
\* shutdown goroutine.
C13_StopForwarded ==
  /\ \A i \in 1..Len(reqLog) :
       reqLog[i][1] \in {"Stop", "Shutdown"} => reqLog[i][2] = "termination"
  /\ \A j \in 1..Len(doneLog) :
       doneLog[j][1] = "termination" => doneLog[j][2] = "shutdown"
  /\ Cardinality({j \in 1..Len(doneLog) : doneLog[j][1] = "termination"}) <=
       Cardinality({i \in 1..Len(reqLog) : reqLog[i][1] \in {"Stop", "Shutdown"}})

\* C14: on the Windows handler every Interrogate request is received by the
\* interrogate listener and answered on the status channel, and that
\* listener does not exit before the done channel has fired or a Stop or
\* Shutdown command has been received.
C14_InterrogateAnswered ==
  /\ \A i \in 1..Len(reqLog) :
       reqLog[i][1] = "Interrogate" => reqLog[i][2] = "interrogate"
  /\ ipc = "end" => (doneSent >= 1 \/ StopReceived)

\* C15: on the Windows handler, once a value has been sent on the done
\* channel or a Stop or Shutdown command has been received, both listener
\* loops eventually exit (or the process ends); neither stays blocked for
\* ever.
C15_ListenersExit ==
  (ipc # "none" /\ (doneSent >= 1 \/ StopReceived)) ~>
    ((ipc = "end" /\ tlpc = "end") \/ Ended)

\* Startup found no config file and the metadata fetch failed.
Degraded == hist.cfg = "missing" /\ hist.fetch = "failed"

\* C19: with no config file and a failed startup fetch, runAgent has
\* reported Running, the fetch failure is not what ends startup, the
\* long-poll subscription is registered before Run is entered and Run
\* returns only after the root context has been cancelled.
C19_DegradedStartup ==
  Degraded =>
    /\ Calls(StateRunning) = 1
    /\ hist.running = "nil"
    /\ newMetadata = <<"nil">> \/ delivered > 0
    /\ mainpc \in {"eventsNew", "subscribe", "run", "returned", "fatal"}
    /\ mainpc = "fatal" => hist.fatalAt = "eventsNew"
    /\ mainpc \in {"run", "returned"} => subscribed
    /\ mainpc = "returned" => ctxCancelled

\* C19 witness: after a degraded startup runAgent is inside Run, subscribed,
\* with the context not cancelled.
C19_Witness ==
  /\ Degraded
  /\ mainpc = "run"
  /\ subscribed
  /\ Calls(StateRunning) = 1
  /\ ~ ctxCancelled
  /\ proc = "running"

\* C20: when SetState(Running) returns an error runAgent returns before the
\* subscription is registered and before Run is entered, no reconciliation
\* pass runs and the process ends with a fatal error; when Register returns
\* an error runAgent is never called.
C20_StartupStateFatal ==
  /\ hist.running \notin {"none", "nil", "blocked"} =>
       /\ hist.fatalAt = "setRunning"
       /\ mainpc = "fatal"
       /\ proc = "fatal"
       /\ ~ subscribed
       /\ delivered = 0
  /\ hist.reg \notin {"none", "nil"} =>
       /\ hist.fatalAt = "register"
       /\ mainpc = "fatal"
       /\ proc = "fatal"
       /\ hist.cfg = "none"
       /\ Calls(StateRunning) = 0
       /\ ~ subscribed
       /\ delivered = 0
  /\ delivered > 0 => (subscribed /\ hist.running = "nil" /\ hist.reg = "nil")

\* C20 witness: SetState(Running) has returned an error and the process has
\* ended with a fatal error, nothing subscribed.
C20_Witness ==
  /\ hist.running \notin {"none", "nil", "blocked"}
  /\ hist.reg = "nil"
  /\ Calls(StateRunning) = 1
  /\ proc = "fatal"
  /\ ~ subscribed

\* The event manager has been constructed by events.New.
Constructed == mainpc \in {"subscribe", "run", "returned"}

\* C21: the watcher set is decided once, when the event manager is
\* constructed. There is none before that; from then on, whatever snapshot a
\* later long-poll event has delivered, it holds the metadata long-poll
\* watcher, and the SSH-trusted-CA watcher exactly when OS Login was enabled in
\* the snapshot at hand at construction, and nothing else.
C21_WatchersDecidedOnce ==
  /\ ~ Constructed => watchers = {} /\ hist.oslogin = "none"
  /\ Constructed =>
       /\ "mdsEvent.WatcherID" \in watchers
       /\ "sshtrustedca.WatcherID" \in watchers <=> hist.oslogin = "on"
       /\ watchers \subseteq {"mdsEvent.WatcherID", "sshtrustedca.WatcherID"}

\* C21 witness: constructed with OS Login disabled, and a long-poll event has
\* since delivered a snapshot that enables it: the SSH-trusted-CA watcher is
\* still not in the set.
C21_Witness ==
  /\ hist.oslogin = "off"
  /\ delivered >= 1
  /\ osLogin = "on"
  /\ watchers = {"mdsEvent.WatcherID"}

\* C24: repeated termination signals are harmless. A signal delivered after
\* the signal goroutine has taken the first one is never sent on a closed
\* channel, which would panic, and the signal goroutine sends at most one
\* value on the done channel.
C24_RepeatedSignalsHarmless ==
  /\ proc # "panic"
  /\ Cardinality({j \in 1..Len(doneLog) : doneLog[j][1] = "signal"}) <= 1

====
